---- MODULE Spec2Model ----
(***************************************************************************)
(* Model of requester.py: the batch that turns tab-delimited instruction   *)
(* lines into Requester objects (get_requesters), runs ffmpeg for each     *)
(* ready one (main) and writes the command log (backup).                   *)
(*                                                                         *)
(* A Python str is a sequence of one-character strings, so that            *)
(* startswith, replace, split, slicing, int() and the f-string formats are *)
(* computed the way the code computes them.  Paths use "/" as separator    *)
(* (os.path on names without a backslash or a drive letter).               *)
(***************************************************************************)
EXTENDS Integers, Sequences, FiniteSets, TLC

\* ------------------------------------------------------------------ bounds
MaxLines == 2        \* lines of the instruction file
MaxPreexisting == 1  \* output files on disk before the first run
MaxRuns == 2         \* runs of the whole batch against the same file

\* ------------------------------------------------------- program constants
MinSize == 1024      \* os.path.getsize(...) < 1024

TAB == "\t"
NL == "\n"
SEP == "/"

\* ---------------------------------------------------------- str operations
Min(a, b) == IF a < b THEN a ELSE b

\* s[a:b] of Python, a and b 0-based with b exclusive, clipped to len(s)
Slice(s, a, b) == SubSeq(s, a + 1, Min(b, Len(s)))

StartsWith(s, p) == Len(s) >= Len(p) /\ SubSeq(s, 1, Len(p)) = p

EndsWith(s, p) == Len(s) >= Len(p) /\ SubSeq(s, Len(s) - Len(p) + 1, Len(s)) = p

\* `sub in s`
Contains(s, sub) ==
    \E k \in 0..(Len(s) - Len(sub)) : SubSeq(s, k + 1, k + Len(sub)) = sub

\* s.replace(old, new): non-overlapping occurrences, left to right
RECURSIVE Replace(_, _, _)
Replace(s, old, new) ==
    IF Len(s) < Len(old) THEN s
    ELSE IF SubSeq(s, 1, Len(old)) = old
         THEN new \o Replace(SubSeq(s, Len(old) + 1, Len(s)), old, new)
         ELSE <<s[1]>> \o Replace(Tail(s), old, new)

\* s.split(sep) for a one-character sep
RECURSIVE Split(_, _)
Split(s, sep) ==
    IF \A k \in 1..Len(s) : s[k] # sep THEN <<s>>
    ELSE LET k == CHOOSE j \in 1..Len(s) :
                      s[j] = sep /\ \A m \in 1..(j - 1) : s[m] # sep
         IN  <<SubSeq(s, 1, k - 1)>> \o Split(SubSeq(s, k + 1, Len(s)), sep)

\* index of the last separator of a path, 0 when there is none
LastSep(p) ==
    IF \A k \in 1..Len(p) : p[k] # SEP THEN 0
    ELSE CHOOSE j \in 1..Len(p) : p[j] = SEP /\ \A m \in (j + 1)..Len(p) : p[m] # SEP

Basename(p) == SubSeq(p, LastSep(p) + 1, Len(p))

Dirname(p) ==
    LET head == SubSeq(p, 1, LastSep(p))
    IN  IF head # <<>> /\ (\E k \in 1..Len(head) : head[k] # SEP)
        THEN SubSeq(head, 1, CHOOSE j \in 1..Len(head) :
                                 head[j] # SEP /\ \A m \in (j + 1)..Len(head) : head[m] = SEP)
        ELSE head

PathJoin(a, b) ==
    IF StartsWith(b, <<SEP>>) THEN b
    ELSE IF a = <<>> \/ EndsWith(a, <<SEP>>) THEN a \o b
    ELSE a \o <<SEP>> \o b

\* os.path.splitext(p)[0]: the extension starts at the last dot of the
\* basename, leading dots of the basename not counted
SplitextRoot(p) ==
    LET b0 == LastSep(p)
        dots == {j \in (b0 + 1)..Len(p) : p[j] = "."}
        lead == {j \in (b0 + 1)..Len(p) : \A m \in (b0 + 1)..j : p[m] = "."}
        cand == dots \ lead
    IN  IF cand = {} THEN p
        ELSE SubSeq(p, 1, (CHOOSE j \in cand : \A m \in cand : m <= j) - 1)

\* ------------------------------------------------------------------- int()
DigitChars == <<"0", "1", "2", "3", "4", "5", "6", "7", "8", "9">>

IsDigit(c) == \E d \in 1..10 : DigitChars[d] = c

DigitVal(c) == (CHOOSE d \in 1..10 : DigitChars[d] = c) - 1

RECURSIVE DigitsVal(_)
DigitsVal(s) ==
    IF s = <<>> THEN 0 ELSE DigitsVal(SubSeq(s, 1, Len(s) - 1)) * 10 + DigitVal(s[Len(s)])

RECURSIVE Strip(_)
Strip(s) ==
    IF s = <<>> THEN s
    ELSE IF s[1] = " " THEN Strip(Tail(s))
    ELSE IF s[Len(s)] = " " THEN Strip(SubSeq(s, 1, Len(s) - 1))
    ELSE s

\* int(s): surrounding blanks and one sign are accepted, anything else that
\* is not a digit raises ValueError
PyInt(s) ==
    LET t == Strip(s)
        signed == t # <<>> /\ t[1] \in {"+", "-"}
        body == IF signed THEN Tail(t) ELSE t
        ok == body # <<>> /\ \A k \in 1..Len(body) : IsDigit(body[k])
    IN  [ok |-> ok,
         val |-> IF ~ok THEN 0
                 ELSE IF signed /\ t[1] = "-" THEN 0 - DigitsVal(body)
                 ELSE DigitsVal(body)]

\* ------------------------------------------------------------ format :02d
RECURSIVE Digits(_)
Digits(n) ==
    IF n < 10 THEN <<DigitChars[n + 1]>>
    ELSE Digits(n \div 10) \o <<DigitChars[(n % 10) + 1]>>

Fmt02d(n) == IF n < 10 THEN <<"0">> \o Digits(n) ELSE Digits(n)

\* ------------------------------------------------------------ configuration
\* local_config is not part of the sources: the folders are fixed names
INPUT_FOLDER == <<"i", "n">>
OUTPUT_FOLDER == <<"o", "u", "t">>
ONEDRIVE_ROOT ==
    <<"D", ":", "\\", "O", "n", "e", "D", "r", "i", "v", "e", "/", "V", "i", "d", "e", "o", "s">>

YOUTUBE == <<"y", "o", "u", "t", "u", "b", "e", ".", "c", "o", "m">>
SENTINEL == <<"0", "0", ":", "0", "0", ":", "0", "0">>
EXT_MP3 == <<".", "m", "p", "3">>
EXT_MKV == <<".", "m", "k", "v">>
MARK_1080 == <<"1", "0", "8", "0">>

\* the file yt.streams.get_highest_resolution().download(...) leaves
DownloadedFile == PathJoin(INPUT_FOLDER, <<"v", ".", "m", "p", "4">>)

\* outcomes of the remote fetch: a file, BotDetection, any other exception
FetchOutcomes == {"ok", "bot", "error"}

\* what ffprobe may print for the first video stream
ProbeOutputs ==
    { <<"1", "9", "2", "0", "x", "1", "0", "8", "0">>,
      <<"1", "2", "8", "0", "x", "7", "2", "0">>,
      <<>> }

\* --------------------------------------------------------------- Requester
VideoOptions ==
    << <<"-c:v libsvtav1">>, <<"-c:s copy">>, <<"-c:a copy">>, <<"-map 0:a">>,
       <<"-map 0:v:0">>, <<"-map 0:s?">>, <<"-force_key_frames 0">>, <<"-crf 32">>,
       <<"-threads 3">>, <<"-pix_fmt yuv420p10le">> >>

AudioOptions == << <<"-codec:a libmp3lame">>, <<"-qscale:a 3">> >>

SCALE_720 == <<"-vf \"scale=trunc(iw/2)*2:720\"">>
SCALE_EVEN == <<"-vf \"scale=trunc(iw/2)*2:trunc(ih/2)*2\"">>

\* the fields __init__ sets before the try block
NewRequester(output_filename) ==
    [input_filename |-> <<>>,
     output_filename |-> output_filename,
     duration |-> <<>>,
     start |-> <<>>,
     command |-> <<>>,
     ready |-> FALSE,
     video_options |-> VideoOptions,
     audio_options |-> AudioOptions,
     options |-> << <<"-v quiet">> >>]

\* ExistingFilename(path, message) of the rignak library: AssertionError,
\* the exception __init__ catches, unless the file exists
ExistingFilename(path, files) == path \in files

\* set_input_file: [self, exc]; exc is "none", "AssertionError" or, for an
\* exception of the fetch other than BotDetection, "FetchError"
set_input_file(self, input_filename, fetch, files) ==
    LET remote == Contains(input_filename, YOUTUBE)
        local == PathJoin(INPUT_FOLDER, input_filename)
    IN  IF remote /\ fetch = "error"
        THEN [self |-> self, exc |-> "FetchError"]
        ELSE IF remote /\ fetch = "ok"
        THEN [self |-> [self EXCEPT !.input_filename = DownloadedFile], exc |-> "none"]
        ELSE IF ExistingFilename(local, files)
        THEN [self |-> [self EXCEPT !.input_filename = local], exc |-> "none"]
        ELSE [self |-> self, exc |-> "AssertionError"]

ResizeOptionSwapped(probe) == IF Contains(probe, MARK_1080) THEN SCALE_EVEN ELSE SCALE_720

\* add_resize_option: the filter appended to video_options
ResizeOption(probe) == IF Contains(probe, MARK_1080) THEN SCALE_720 ELSE SCALE_EVEN

add_resize_option(self, probe) ==
    [self EXCEPT !.video_options = Append(@, ResizeOption(probe))]

TitleOption(path) ==
    <<"-metadata title=\"">> \o Basename(SplitextRoot(path)) \o <<"\"">>

set_output_file(self, output_filename, probe) ==
    LET path == PathJoin(OUTPUT_FOLDER, output_filename)
        s1 == [self EXCEPT !.output_filename = path]
    IN  IF EndsWith(path, EXT_MP3)
        THEN [s1 EXCEPT !.options = (@ \o s1.audio_options) \o <<TitleOption(path)>>]
        ELSE IF EndsWith(path, EXT_MKV)
        THEN LET s2 == add_resize_option(s1, probe)
             IN  [s2 EXCEPT !.options = @ \o s2.video_options]
        ELSE s1

set_start(self, start_timestring) ==
    IF start_timestring = SENTINEL THEN self
    ELSE [self EXCEPT !.start = <<"-", "s", "s", " ">> \o start_timestring]

\* hour * 3600 + minute * 60 + second of one timestring, or ValueError
Seconds(timestring) ==
    LET hour == PyInt(Slice(timestring, 0, 2))
        minute == PyInt(Slice(timestring, 3, 5))
        second == PyInt(Slice(timestring, 6, 8))
    IN  [ok |-> hour.ok /\ minute.ok /\ second.ok,
         val |-> hour.val * 3600 + minute.val * 60 + second.val]

DurationOkOrZero(duration) == duration >= 0

\* assert duration > 0
DurationOk(duration) == duration > 0

FormatDurationNoHourWrap(duration) ==
    <<"-", "t", " ">> \o Fmt02d(duration \div 3600) \o <<":">>
        \o Fmt02d(duration \div 60) \o <<":">> \o Fmt02d(duration % 60)

\* f"-t {duration // 3600:02d}:{duration % 3600 // 60:02d}:{duration % 60:02d}"
FormatDuration(duration) ==
    <<"-", "t", " ">> \o Fmt02d(duration \div 3600) \o <<":">>
        \o Fmt02d((duration % 3600) \div 60) \o <<":">> \o Fmt02d(duration % 60)

set_duration(self, start_timestring, end_timestring) ==
    IF end_timestring = SENTINEL THEN [self |-> self, exc |-> "none"]
    ELSE LET st == Seconds(start_timestring)
             en == Seconds(end_timestring)
             duration == en.val - st.val
         IN  IF ~st.ok \/ ~en.ok THEN [self |-> self, exc |-> "ValueError"]
             ELSE IF ~DurationOk(duration) THEN [self |-> self, exc |-> "AssertionError"]
             ELSE [self |-> [self EXCEPT !.duration = FormatDuration(duration)],
                   exc |-> "none"]

NameAlwaysAllowed(output_filename) == TRUE

\* the test after the try block: output_filename.startswith('-')
NameAllowed(output_filename) == ~StartsWith(output_filename, <<"-">>)

\* Requester.__init__: [self, exc]; an AssertionError is caught and leaves
\* ready = False, any other exception leaves the constructor
Requester(input_filename, output_filename, start_datestring, end_datestring, fetch, probe, files) ==
    LET r0 == NewRequester(output_filename)
        r1 == set_input_file(r0, input_filename, fetch, files)
        r2 == set_output_file(r1.self, output_filename, probe)
        r3 == set_start(r2, start_datestring)
        r4 == set_duration(r3, start_datestring, end_datestring)
    IN  IF r1.exc = "AssertionError" THEN [self |-> r1.self, exc |-> "none"]
        ELSE IF r1.exc # "none" THEN [self |-> r1.self, exc |-> r1.exc]
        ELSE IF r4.exc = "AssertionError" THEN [self |-> r4.self, exc |-> "none"]
        ELSE IF r4.exc # "none" THEN [self |-> r4.self, exc |-> r4.exc]
        ELSE [self |-> [r4.self EXCEPT !.ready = NameAllowed(output_filename)],
              exc |-> "none"]

\* " ".join(options)
RECURSIVE JoinOptions(_)
JoinOptions(options) ==
    IF options = <<>> THEN <<>>
    ELSE IF Len(options) = 1 THEN options[1]
    ELSE options[1] \o <<" ">> \o JoinOptions(Tail(options))

\* the command string run() builds
Command(self) ==
    <<"ffmpeg ">> \o self.start \o <<" -i \"">> \o self.input_filename \o <<"\" ">>
        \o self.duration \o <<" ">> \o JoinOptions(self.options)
        \o <<" \"">> \o self.output_filename \o <<"\"">>

\* ------------------------------------------------------ instruction lines
\* a comment that would split into four fields
LineComment ==
    <<"#", "b", ".", "m", "p", "3", TAB, "0", "0", ":", "0", "0", ":", "0", "0", TAB, "0", "0", ":", "0", "0", ":", "0", "0", TAB, "s", ".", "m", "k", "v">>

\* the sentinel
LineStop ==
    <<"S", "T", "O", "P">>

\* five fields
LineFive ==
    <<"b", ".", "m", "p", "3", TAB, "0", "0", ":", "0", "0", ":", "0", "0", TAB, "0", "0", ":", "0", "0", ":", "0", "0", TAB, "s", ".", "m", "k", "v", TAB, "x">>

\* one field
LineOne ==
    <<"b", ".", "m", "p", "3">>

\* a doubled tab, characters to sanitise, a time window
LineAudio ==
    <<"a", "?", "\"", "'", ".", "m", "p", "3", TAB, TAB, "0", "0", ":", "1", "6", ":", "4", "1", TAB, "0", "0", ":", "2", "2", ":", "3", "5", TAB, "s", ".", "m", "k", "v">>

\* a video in a subdirectory, both times the sentinel
LineVideoSub ==
    <<"A", "/", "-", "c", ".", "m", "k", "v", TAB, "0", "0", ":", "0", "0", ":", "0", "0", TAB, "0", "0", ":", "0", "0", ":", "0", "0", TAB, "s", ".", "m", "k", "v">>

\* a name that begins with a dash
LineDash ==
    <<"-", "c", ".", "m", "k", "v", TAB, "0", "0", ":", "1", "6", ":", "4", "1", TAB, "0", "0", ":", "0", "0", ":", "0", "0", TAB, "s", ".", "m", "k", "v">>

\* end before start
LineEndBefore ==
    <<"b", ".", "m", "p", "3", TAB, "0", "0", ":", "2", "2", ":", "3", "5", TAB, "0", "0", ":", "1", "6", ":", "4", "1", TAB, "s", ".", "m", "k", "v">>

\* end equal to start
LineEndEqual ==
    <<"b", ".", "m", "p", "3", TAB, "0", "0", ":", "1", "6", ":", "4", "1", TAB, "0", "0", ":", "1", "6", ":", "4", "1", TAB, "s", ".", "m", "k", "v">>

\* a timestamp int() rejects
LineNotNumeric ==
    <<"b", ".", "m", "p", "3", TAB, "0", "0", ":", "0", "x", ":", "0", "0", TAB, "0", "0", ":", "2", "2", ":", "3", "5", TAB, "s", ".", "m", "k", "v">>

\* another extension, a duration of one hour
LineOther ==
    <<"d", ".", "t", "x", "t", TAB, "0", "0", ":", "0", "0", ":", "0", "0", TAB, "0", "1", ":", "0", "0", ":", "0", "0", TAB, "s", ".", "m", "k", "v">>

\* a source that is not in the input folder
LineNoSource ==
    <<"b", ".", "m", "p", "3", TAB, "0", "0", ":", "0", "0", ":", "0", "0", TAB, "0", "0", ":", "0", "0", ":", "0", "0", TAB, "m", ".", "m", "k", "v">>

\* a remote source
LineRemote ==
    <<"e", ".", "m", "k", "v", TAB, "0", "0", ":", "0", "0", ":", "0", "0", TAB, "0", "0", ":", "2", "2", ":", "3", "5", TAB, "y", "o", "u", "t", "u", "b", "e", ".", "c", "o", "m", "/", "v">>

LinePool ==
    {LineComment, LineStop, LineFive, LineOne,
     LineAudio, LineVideoSub, LineDash, LineEndBefore,
     LineEndEqual, LineNotNumeric, LineOther, LineNoSource,
     LineRemote}

\* the input folder holds one source
InputFiles == {PathJoin(INPUT_FOLDER, <<"s", ".", "m", "k", "v">>)}

\* output files that may be on disk before the first run
PreexistingPaths ==
    {PathJoin(OUTPUT_FOLDER, <<"a", "'", ".", "m", "p", "3">>),
     PathJoin(OUTPUT_FOLDER, <<"A", "/", "-", "c", ".", "m", "k", "v">>),
     PathJoin(OUTPUT_FOLDER, <<"d", ".", "t", "x", "t">>),
     PathJoin(ONEDRIVE_ROOT, <<"e", ".", "m", "k", "v">>)}

\* ------------------------------------------------------------------ parser
IsComment(line) == StartsWith(line, <<"#">>)

IsStopNever(line) == FALSE

IsStop(line) == StartsWith(line, <<"S", "T", "O", "P">>)

\* while '\t\t' in line: line = line.replace('\t\t', '\t')
RECURSIVE CollapseTabs(_)
CollapseTabs(line) ==
    IF Contains(line, <<TAB, TAB>>)
    THEN CollapseTabs(Replace(line, <<TAB, TAB>>, <<TAB>>))
    ELSE line

SplitLine(line) == Split(CollapseTabs(line), TAB)

SanitizeKeepQuestionMark(output_filename) ==
    Replace(Replace(output_filename, <<"'">>, <<>>), <<"\"">>, <<"'">>)

\* output_filename.replace("?", "").replace("'", "").replace('"', "'")
Sanitize(output_filename) ==
    Replace(Replace(Replace(output_filename, <<"?">>, <<>>), <<"'">>, <<>>), <<"\"">>, <<"'">>)

\* the tuple appended to args
ArgsOf(split_line) ==
    [input_filename |-> split_line[4],
     output_filename |-> Sanitize(split_line[1]),
     start |-> split_line[2],
     end |-> split_line[3]]

\* ---------------------------------------------------- existing-output index
\* glob.glob(root + "/**/*.mkv", recursive=True): files below root whose name
\* ends in .mkv; * and ** do not match a component that begins with a dot
GlobMkv(root, path) ==
    /\ StartsWith(path, root \o <<SEP>>)
    /\ EndsWith(path, EXT_MKV)
    /\ LET below == Split(SubSeq(path, Len(root) + 2, Len(path)), SEP)
       IN  \A k \in 1..Len(below) : below[k] # <<>> /\ below[k][1] # "."

\* available_filenames of get_exists, as a set
get_exists(d) ==
    {Basename(path) : path \in
        {q \in DOMAIN d : GlobMkv(OUTPUT_FOLDER, q) \/ GlobMkv(ONEDRIVE_ROOT, q)}}

exists(index, filename) == Basename(filename) \in index

AlreadyProcessedNever(d, path) == FALSE

AlreadyProcessedIndexOnly(d, path) == Basename(path) \in get_exists(d)

\* os.path.exists(requester.output_filename) in get_requesters
AlreadyProcessed(d, path) == path \in DOMAIN d

\* os.path.getsize(path) < 1024
TooSmall(d, path) == d[path] < MinSize

\* ------------------------------------------------------------------- state
VARIABLES
    lines,          \* the instruction file
    return_args,    \* get_requesters(lines, return_args=True) or main()
    files,          \* files of the input folder
    disk,           \* output files: path -> size
    dirs,           \* directories os.makedirs created
    pc,             \* "start", "loop", "run", "done", "crashed"
    run,            \* number of the current run of the batch
    i,              \* index of the line the loop of get_requesters is at
    j,              \* index of the requester the loop of main is at
    index,          \* available_filenames
    args,           \* args of get_requesters
    requesters,     \* requesters of get_requesters
    gcommands,      \* commands of get_requesters
    commands,       \* commands of main
    backupFile,     \* the backup file: whether written, and its lines
    log,            \* warnings and errors logged, each about a line
    argLines,       \* history: the line each element of args came from
    built,          \* history: every Requester constructed in this run
    reqMeta,        \* history: line and on-disk state of each queued requester
    invocations,    \* history: every os.system(ffmpeg ...) of all runs
    runStartDisk    \* history: disk when the current run began

vars ==
    <<lines, return_args, files, disk, dirs, pc, run, i, j, index, args, requesters,
      gcommands, commands, backupFile, log, argLines, built, reqMeta, invocations,
      runStartDisk>>

Unwritten == [written |-> FALSE, content |-> <<>>]

\* sizes an output file may have
OutputSizes == {MinSize - 1, MinSize}

\* sequences of at most n elements of S
SeqUpTo(S, n) == UNION {[1..k -> S] : k \in 0..n}

\* the disks the first run may start with
PreexistingDisks ==
    UNION {[P -> OutputSizes] :
              P \in {Q \in SUBSET PreexistingPaths : Cardinality(Q) <= MaxPreexisting}}

Init ==
    /\ lines \in SeqUpTo(LinePool, MaxLines)
    /\ return_args \in BOOLEAN
    /\ files = InputFiles
    /\ disk \in PreexistingDisks
    /\ dirs = {}
    /\ pc = "start"
    /\ run = 1
    /\ i = 1
    /\ j = 1
    /\ index = {}
    /\ args = <<>>
    /\ requesters = <<>>
    /\ gcommands = <<>>
    /\ commands = <<>>
    /\ backupFile = Unwritten
    /\ log = {}
    /\ argLines = <<>>
    /\ built = <<>>
    /\ reqMeta = <<>>
    /\ invocations = <<>>
    /\ runStartDisk = disk

\* where control goes when get_requesters returns: to its caller in args
\* mode, into the loop of main otherwise
Returned == IF return_args THEN "done" ELSE "run"

\* exists = get_exists(), before the loop over the lines
GetExists ==
    /\ pc = "start"
    /\ index' = get_exists(disk)
    /\ pc' = "loop"
    /\ UNCHANGED <<lines, return_args, files, disk, dirs, run, i, j, args, requesters,
                   gcommands, commands, backupFile, log, argLines, built, reqMeta,
                   invocations, runStartDisk>>

InLoop == pc = "loop" /\ i <= Len(lines)

\* if line.startswith('#'): continue
LoopComment ==
    /\ InLoop
    /\ IsComment(lines[i])
    /\ i' = i + 1
    /\ UNCHANGED <<lines, return_args, files, disk, dirs, pc, run, j, index, args,
                   requesters, gcommands, commands, backupFile, log, argLines, built,
                   reqMeta, invocations, runStartDisk>>

\* elif line.startswith('STOP'): break
LoopStop ==
    /\ InLoop
    /\ ~IsComment(lines[i])
    /\ IsStop(lines[i])
    /\ pc' = Returned
    /\ UNCHANGED <<lines, return_args, files, disk, dirs, run, i, j, index, args,
                   requesters, gcommands, commands, backupFile, log, argLines, built,
                   reqMeta, invocations, runStartDisk>>

Parsed == InLoop /\ ~IsComment(lines[i]) /\ ~IsStop(lines[i])

\* len(split_line) != 4: a warning when there are more than three fields
LoopMalformed ==
    /\ Parsed
    /\ LET split_line == SplitLine(lines[i])
       IN  /\ Len(split_line) # 4
           /\ log' = IF Len(split_line) > 3
                     THEN log \cup {[run |-> run, level |-> "warning",
                                     text |-> "Check delimiters", about |-> i]}
                     ELSE log
    /\ i' = i + 1
    /\ UNCHANGED <<lines, return_args, files, disk, dirs, pc, run, j, index, args,
                   requesters, gcommands, commands, backupFile, argLines, built,
                   reqMeta, invocations, runStartDisk>>

\* four fields: args.append(...); if exists(output_filename) or return_args: continue
LoopSkip ==
    /\ Parsed
    /\ Len(SplitLine(lines[i])) = 4
    /\ LET a == ArgsOf(SplitLine(lines[i]))
       IN  /\ exists(index, a.output_filename) \/ return_args
           /\ args' = Append(args, a)
    /\ argLines' = Append(argLines, i)
    /\ i' = i + 1
    /\ UNCHANGED <<lines, return_args, files, disk, dirs, pc, run, j, index, requesters,
                   gcommands, commands, backupFile, log, built, reqMeta, invocations,
                   runStartDisk>>

\* the remote fetch and the probe are consulted only for the inputs and the
\* outputs the code consults them for
FetchFor(input_filename) ==
    IF Contains(input_filename, YOUTUBE) THEN FetchOutcomes ELSE {"unused"}

ProbeFor(output_filename) ==
    IF EndsWith(PathJoin(OUTPUT_FOLDER, output_filename), EXT_MKV)
    THEN ProbeOutputs ELSE {<<"unused">>}

\* four fields, not in the index: requester = Requester(*args[-1]) and the
\* three-way test on it
LoopRequester ==
    /\ Parsed
    /\ Len(SplitLine(lines[i])) = 4
    /\ LET a == ArgsOf(SplitLine(lines[i]))
       IN  /\ ~(exists(index, a.output_filename) \/ return_args)
           /\ args' = Append(args, a)
           /\ \E fetch \in FetchFor(a.input_filename), probe \in ProbeFor(a.output_filename) :
                \E r \in {Requester(a.input_filename, a.output_filename, a.start, a.end,
                                     fetch, probe, files)} :
                LET self == r.self
                    path == self.output_filename
                IN  /\ files' = IF fetch = "ok" THEN files \cup {DownloadedFile} ELSE files
                    /\ built' = Append(built, [idx |-> i, self |-> self, exc |-> r.exc,
                                               probe |-> probe, name |-> a.output_filename,
                                               start |-> a.start, end |-> a.end])
                    /\ IF r.exc # "none"
                       THEN /\ pc' = "crashed"
                            /\ UNCHANGED <<i, log, gcommands, requesters, reqMeta>>
                       ELSE /\ pc' = pc
                            /\ i' = i + 1
                            /\ IF ~self.ready
                               THEN UNCHANGED <<log, gcommands, requesters, reqMeta>>
                               ELSE IF AlreadyProcessed(disk, path)
                               THEN /\ IF TooSmall(disk, path)
                                       THEN /\ log' = log \cup
                                                 {[run |-> run, level |-> "warning",
                                                   text |-> "Please check", about |-> i]}
                                            /\ gcommands' = Append(gcommands, lines[i] \o <<NL>>)
                                       ELSE UNCHANGED <<log, gcommands>>
                                    /\ UNCHANGED <<requesters, reqMeta>>
                               ELSE /\ requesters' = Append(requesters, self)
                                    /\ reqMeta' = Append(reqMeta,
                                           [idx |-> i, onDisk |-> path \in DOMAIN disk])
                                    /\ UNCHANGED <<log, gcommands>>
    /\ argLines' = Append(argLines, i)
    /\ UNCHANGED <<lines, return_args, disk, dirs, run, j, index, commands, backupFile,
                   invocations, runStartDisk>>

\* the loop over the lines is exhausted: return args or requesters
LoopEnd ==
    /\ pc = "loop"
    /\ i > Len(lines)
    /\ pc' = Returned
    /\ UNCHANGED <<lines, return_args, files, disk, dirs, run, i, j, index, args,
                   requesters, gcommands, commands, backupFile, log, argLines, built,
                   reqMeta, invocations, runStartDisk>>

\* what os.system(ffmpeg ...) may leave at the output path: nothing new, or a
\* file of some size
ToolOutcomes ==
    {[written |-> FALSE, size |-> 0]} \cup {[written |-> TRUE, size |-> n] : n \in OutputSizes}

AfterTool(d, path, outcome) ==
    IF ~outcome.written THEN d
    ELSE [q \in DOMAIN d \cup {path} |-> IF q = path THEN outcome.size ELSE d[q]]

\* the errors run() logs after the tool returned
Verification(d, path, n, k) ==
    IF path \notin DOMAIN d
    THEN {[run |-> n, level |-> "error", text |-> "No file created", about |-> k]}
    ELSE IF d[path] < MinSize
    THEN {[run |-> n, level |-> "error", text |-> "Very small file created", about |-> k]}
    ELSE {}

\* one iteration of the loop of main: makedirs, requester.run(), commands.append
RunRequester ==
    /\ pc = "run"
    /\ ~return_args
    /\ j <= Len(requesters)
    /\ LET self == requesters[j]
           path == self.output_filename
           command == Command(self)
       IN  /\ dirs' = dirs \cup {Dirname(path)}
           /\ requesters' = [requesters EXCEPT ![j].command = command]
           /\ \E outcome \in ToolOutcomes :
                /\ disk' = AfterTool(disk, path, outcome)
                /\ log' = log \cup Verification(disk', path, run, reqMeta[j].idx)
           /\ invocations' = Append(invocations,
                  [run |-> run, idx |-> reqMeta[j].idx, path |-> path,
                   existed |-> path \in DOMAIN disk,
                   validatedOnDisk |-> reqMeta[j].onDisk,
                   atRunStart |-> path \in DOMAIN runStartDisk])
           /\ commands' = Append(commands, command \o <<NL>>)
    /\ j' = j + 1
    /\ UNCHANGED <<lines, return_args, files, pc, run, i, index, args, gcommands,
                   backupFile, argLines, built, reqMeta, runStartDisk>>

\* backup(commands): file.writelines(commands); the batch file main starts
\* afterwards works outside the state kept here
Backup ==
    /\ pc = "run"
    /\ ~return_args
    /\ j > Len(requesters)
    /\ backupFile' = [written |-> TRUE, content |-> commands]
    /\ pc' = "done"
    /\ UNCHANGED <<lines, return_args, files, disk, dirs, run, i, j, index, args,
                   requesters, gcommands, commands, log, argLines, built, reqMeta,
                   invocations, runStartDisk>>

\* main(prerun=False) is started again on the same instruction file and the disk the
\* previous run left
Rerun ==
    /\ pc = "done"
    /\ ~return_args
    /\ run < MaxRuns
    /\ run' = run + 1
    /\ pc' = "start"
    /\ i' = 1
    /\ j' = 1
    /\ index' = {}
    /\ args' = <<>>
    /\ requesters' = <<>>
    /\ gcommands' = <<>>
    /\ commands' = <<>>
    /\ argLines' = <<>>
    /\ built' = <<>>
    /\ reqMeta' = <<>>
    /\ runStartDisk' = disk
    /\ UNCHANGED <<lines, return_args, files, disk, dirs, backupFile, log, invocations>>

Next ==
    \/ GetExists
    \/ LoopComment
    \/ LoopStop
    \/ LoopMalformed
    \/ LoopSkip
    \/ LoopRequester
    \/ LoopEnd
    \/ RunRequester
    \/ Backup
    \/ Rerun

Spec == Init /\ [][Next]_vars

\* ------------------------------------------------------------------ claims
Elems(seq) == {seq[k] : k \in 1..Len(seq)}

\* index of the first line that is not a comment and begins with STOP,
\* Len(lines) + 1 when there is none
FirstStop ==
    LET stops == {k \in 1..Len(lines) :
                     Len(lines[k]) >= 4
                     /\ SubSeq(lines[k], 1, 4) = <<"S", "T", "O", "P">>}
    IN  IF stops = {} THEN Len(lines) + 1
        ELSE CHOOSE k \in stops : \A m \in stops : k <= m

\* a line the loop parses into exactly four fields
FourFields(k) ==
    /\ lines[k] # <<>>
    /\ lines[k][1] # "#"
    /\ Len(SplitLine(lines[k])) = 4

\* the output path a four-field line asks for
OutputPathOf(k) == PathJoin(OUTPUT_FOLDER, Sanitize(SplitLine(lines[k])[1]))

\* HH:MM:SS with decimal digits, and its value in seconds
WellFormedTime(t) ==
    /\ Len(t) = 8
    /\ t[3] = ":" /\ t[6] = ":"
    /\ \A k \in {1, 2, 4, 5, 7, 8} : t[k] \in Elems(DigitChars)

TimeValue(t) ==
    (DigitVal(t[1]) * 10 + DigitVal(t[2])) * 3600
        + (DigitVal(t[4]) * 10 + DigitVal(t[5])) * 60
        + DigitVal(t[7]) * 10 + DigitVal(t[8])

\* a constructed Requester whose input was resolved, so that the setters
\* after set_input_file ran
Resolved(b) == b.self.input_filename # <<>>

T_00_16_41 == <<"0", "0", ":", "1", "6", ":", "4", "1">>
T_00_22_35 == <<"0", "0", ":", "2", "2", ":", "3", "5">>

\* C1: at the end of a run of main, every parsed four-field line whose output
\* file was on disk below the minimum size caused no ffmpeg invocation, a
\* warning, and its raw text plus a newline in the log handed to backup.
C1_SmallOutputRequeued ==
    (pc = "done" /\ ~return_args /\ backupFile.written) =>
        \A k \in Elems(argLines) :
            (OutputPathOf(k) \in DOMAIN runStartDisk
             /\ runStartDisk[OutputPathOf(k)] < MinSize)
            => /\ \A v \in Elems(invocations) : ~(v.run = run /\ v.idx = k)
               /\ \E w \in log : w.run = run /\ w.level = "warning" /\ w.about = k
               /\ (lines[k] \o <<NL>>) \in Elems(backupFile.content)

\* C2 as stated: a ready Requester's output path has a basename that does not
\* begin with a dash.
C2_ReadyBasenameNoDash ==
    \A b \in Elems(built) :
        b.self.ready => Basename(b.self.output_filename)[1] # "-"

\* C2 amended: a ready Requester's output name, as given to the constructor,
\* does not begin with a dash; its basename does not either when the name has
\* no directory prefix.
C2_ReadyNameNoDash ==
    \A b \in Elems(built) :
        b.self.ready =>
            /\ b.name = <<>> \/ b.name[1] # "-"
            /\ (\A k \in 1..Len(b.name) : b.name[k] # SEP)
                   => Basename(b.self.output_filename)[1] # "-"

C2_Witness ==
    \E b \in Elems(built) :
        /\ b.name # <<>> /\ b.name[1] = "-"
        /\ Resolved(b) /\ b.exc = "none"
        /\ ~b.self.ready

\* C3: a failing job never keeps the other jobs from being processed: when
\* the batch has stopped, every line before the first STOP line has been
\* parsed and validated and every queued request has been executed.
C3_BatchLocal ==
    pc \in {"done", "crashed"} =>
        /\ \A k \in 1..(FirstStop - 1) : k <= i
        /\ ~return_args => j > Len(requesters)

\* C4 as stated: a run after the first performs no ffmpeg invocation.
C4_SecondRunInvokesNothing ==
    \A v \in Elems(invocations) : v.run = 1

\* C4 amended: a run after the first invokes ffmpeg only for an output file
\* that was not on disk when that run began (the tool left none, or the line
\* was not ready before); every output left on disk, of any extension and in
\* any subdirectory, causes no invocation.
C4_SecondRunOnlyMissing ==
    \A v \in Elems(invocations) : v.run > 1 => ~v.atRunStart

C4_Witness ==
    /\ run = 2 /\ pc = "done"
    /\ \E v \in Elems(invocations) :
           /\ v.run = 1 /\ v.path \in DOMAIN disk
           /\ ~EndsWith(v.path, EXT_MKV)
           /\ Dirname(v.path) = OUTPUT_FOLDER
    /\ \A v \in Elems(invocations) : v.run = 1

\* C5 as stated: ffmpeg is never invoked for an output file that is on disk
\* at the moment of the invocation.
C5_NeverInvokedOnExisting ==
    \A v \in Elems(invocations) : ~v.existed

\* C5 amended: ffmpeg is never invoked for an output file that was on disk
\* when get_requesters validated the request; a file written later in the
\* same run is not seen.
C5_NotOnDiskWhenValidated ==
    \A v \in Elems(invocations) : ~v.validatedOnDisk

C5_Witness ==
    \E v \in Elems(invocations) : v.existed /\ ~v.validatedOnDisk /\ ~v.atRunStart

\* C6: a Requester built from a non-sentinel end time that is not after the
\* start time is not ready, has no duration option and is never queued.
C6_NonPositiveWindowRejected ==
    \A b \in Elems(built) :
        (/\ b.end # SENTINEL
         /\ WellFormedTime(b.start) /\ WellFormedTime(b.end)
         /\ TimeValue(b.end) <= TimeValue(b.start))
        => /\ ~b.self.ready
           /\ b.self.duration = <<>>
           /\ \A m \in Elems(reqMeta) : m.idx # b.idx

C6_Witness ==
    \E b1, b2 \in Elems(built) :
        /\ Resolved(b1) /\ Resolved(b2)
        /\ WellFormedTime(b1.start) /\ WellFormedTime(b1.end)
        /\ WellFormedTime(b2.start) /\ WellFormedTime(b2.end)
        /\ b1.end # SENTINEL /\ TimeValue(b1.end) = TimeValue(b1.start)
        /\ TimeValue(b2.end) < TimeValue(b2.start)
        /\ pc = "done"

\* C7: no args entry and no Requester comes from a line after the first STOP
\* line, and once get_requesters has returned every four-field line before it
\* has its args entry.
C7_StopHaltsParsing ==
    /\ \A k \in Elems(argLines) : k < FirstStop
    /\ \A b \in Elems(built) : b.idx < FirstStop
    /\ \A m \in Elems(reqMeta) : m.idx < FirstStop
    /\ Len(args) = Len(argLines)
    /\ pc \in {"run", "done"} =>
           \A k \in 1..(FirstStop - 1) : FourFields(k) => k \in Elems(argLines)

C7_Witness ==
    /\ pc = "done"
    /\ FirstStop < Len(lines)
    /\ \E k \in (FirstStop + 1)..Len(lines) : FourFields(k)
    /\ args = <<>> /\ built = <<>>

\* the sanitisation C8 states: every ? removed, every " replaced by '
RECURSIVE StatedSanitize(_)
StatedSanitize(name) ==
    IF name = <<>> THEN <<>>
    ELSE (IF name[1] = "?" THEN <<>>
          ELSE IF name[1] = "\"" THEN <<"'">>
          ELSE <<name[1]>>) \o StatedSanitize(Tail(name))

\* the sanitisation of the amended C8: every ? and every ' removed, then
\* every " replaced by '
RECURSIVE AmendedSanitize(_)
AmendedSanitize(name) ==
    IF name = <<>> THEN <<>>
    ELSE (IF name[1] \in {"?", "'"} THEN <<>>
          ELSE IF name[1] = "\"" THEN <<"'">>
          ELSE <<name[1]>>) \o AmendedSanitize(Tail(name))

\* the fields of line k: the text between the runs of tabs
FieldsOf(k) == SplitLine(lines[k])

\* every parsed four-field line has exactly one args entry
OneEntryPerLine ==
    /\ Len(args) = Len(argLines)
    /\ \A m, n \in 1..Len(argLines) : m < n => argLines[m] < argLines[n]
    /\ \A k \in 1..Len(lines) :
           (k < i /\ k < FirstStop /\ FourFields(k)) => k \in Elems(argLines)

\* C8 as stated: each parsed four-field line gives one args entry with the
\* split fields, the output name with ? removed and " replaced by '.
C8_DescriptorAsStated ==
    /\ OneEntryPerLine
    /\ \A m \in 1..Len(args) :
           /\ args[m].start = FieldsOf(argLines[m])[2]
           /\ args[m].end = FieldsOf(argLines[m])[3]
           /\ args[m].input_filename = FieldsOf(argLines[m])[4]
           /\ args[m].output_filename = StatedSanitize(FieldsOf(argLines[m])[1])

\* C8 amended: each parsed four-field line (not a comment, before STOP) gives
\* one args entry with the split fields, the output name with every ? and
\* every ' removed and every " replaced by '.
C8_DescriptorSanitized ==
    /\ OneEntryPerLine
    /\ \A m \in 1..Len(args) :
           /\ FourFields(argLines[m])
           /\ args[m].start = FieldsOf(argLines[m])[2]
           /\ args[m].end = FieldsOf(argLines[m])[3]
           /\ args[m].input_filename = FieldsOf(argLines[m])[4]
           /\ args[m].output_filename = AmendedSanitize(FieldsOf(argLines[m])[1])
           /\ \A c \in 1..Len(args[m].start) : args[m].start[c] # TAB

C8_Witness ==
    /\ return_args /\ pc = "done"
    /\ \E m \in 1..Len(args) :
           /\ Contains(lines[argLines[m]], <<TAB, TAB>>)
           /\ \E c \in 1..Len(lines[argLines[m]]) : lines[argLines[m]][c] = "?"
           /\ \E c \in 1..Len(lines[argLines[m]]) : lines[argLines[m]][c] = "'"
           /\ args[m].output_filename = <<"a", "'", ".", "m", "p", "3">>
           /\ args[m].start = T_00_16_41

\* C9: for a well-formed start and non-sentinel end d > 0 seconds apart the
\* duration option is "-t HH:MM:SS" with HH*3600 + MM*60 + SS = d, MM < 60 and
\* SS < 60; 00:16:41 to 00:22:35 gives "-t 00:05:54"; the sentinel end leaves
\* the option empty.
C9_DurationOption ==
    \A b \in Elems(built) :
        (Resolved(b) /\ b.exc = "none") =>
            /\ b.end = SENTINEL => b.self.duration = <<>>
            /\ (/\ b.end # SENTINEL
                /\ WellFormedTime(b.start) /\ WellFormedTime(b.end)
                /\ TimeValue(b.end) > TimeValue(b.start))
               => LET opt == b.self.duration
                      hms == SubSeq(opt, 4, Len(opt))
                  IN  /\ Len(opt) = 11
                      /\ SubSeq(opt, 1, 3) = <<"-", "t", " ">>
                      /\ WellFormedTime(hms)
                      /\ TimeValue(hms) = TimeValue(b.end) - TimeValue(b.start)
                      /\ DigitVal(hms[4]) < 6 /\ DigitVal(hms[7]) < 6
            /\ (b.start = T_00_16_41 /\ b.end = T_00_22_35)
               => b.self.duration =
                      <<"-", "t", " ", "0", "0", ":", "0", "5", ":", "5", "4">>

C9_Witness ==
    /\ \E b \in Elems(built) :
           /\ b.start = T_00_16_41 /\ b.end = T_00_22_35
           /\ b.self.duration = <<"-", "t", " ", "0", "0", ":", "0", "5", ":", "5", "4">>
    /\ \E b \in Elems(built) :
           /\ Resolved(b) /\ b.end # SENTINEL
           /\ TimeValue(b.end) - TimeValue(b.start) >= 3600

\* the resize filters among a list of options
ResizeFilters(options) ==
    {k \in 1..Len(options) : options[k] \in {SCALE_720, SCALE_EVEN}}

\* C10: .mp3 gives the audio options and a title tag of the output basename,
\* .mkv the video options and exactly one resize filter, the 720-line scale
\* iff the probe output contains 1080, any other extension no extra option.
C10_OptionsByExtension ==
    \A b \in Elems(built) :
        Resolved(b) =>
            LET options == b.self.options
                base == Basename(PathJoin(OUTPUT_FOLDER, b.name))
            IN  /\ EndsWith(b.name, EXT_MP3) =>
                    /\ Elems(AudioOptions) \subseteq Elems(options)
                    /\ (<<"-metadata title=\"">> \o SubSeq(base, 1, Len(base) - 4)
                            \o <<"\"">>) \in Elems(options)
                    /\ Elems(options) \cap Elems(VideoOptions) = {}
                    /\ ResizeFilters(options) = {}
                /\ EndsWith(b.name, EXT_MKV) =>
                    /\ Elems(VideoOptions) \subseteq Elems(options)
                    /\ Cardinality(ResizeFilters(options)) = 1
                    /\ (SCALE_720 \in Elems(options)) <=> Contains(b.probe, MARK_1080)
                    /\ (SCALE_EVEN \in Elems(options)) <=> ~Contains(b.probe, MARK_1080)
                    /\ Elems(options) \cap Elems(AudioOptions) = {}
                /\ (~EndsWith(b.name, EXT_MP3) /\ ~EndsWith(b.name, EXT_MKV)) =>
                    options = << <<"-v quiet">> >>

C10_Witness ==
    /\ \E b \in Elems(built) :
           /\ Resolved(b) /\ EndsWith(b.name, EXT_MKV)
           /\ Contains(b.probe, MARK_1080)
           /\ SCALE_720 \in Elems(b.self.options)
    /\ \E b \in Elems(built) :
           /\ Resolved(b) /\ EndsWith(b.name, EXT_MP3)
           /\ Len(b.self.options) = 4

====
